---- MODULE Spec2Model ----
(***************************************************************************)
(* A model of app/bot.py, the GhosttyBot class: extension discovery, the   *)
(* bootstrap fan-out (setup_hook), the per-extension boundary              *)
(* (_try_extension and its two wrappers), the memoized resource accessors, *)
(* the emoji cache and the message gate (on_message).                      *)
(*                                                                         *)
(* One asyncio event loop runs everything: an action of this module is one *)
(* run of a coroutine from one suspension point (await) to the next.       *)
(***************************************************************************)
EXTENDS Naturals, Integers, Sequences, FiniteSets, TLC

\* ------------------------------------------------------------------ bounds

\* Number of candidate modules under app/components.
NumModules == 3

Modules == 1..NumModules

\* Number of module names the run-time callers load, unload and redeploy.
NumTargets == 2

Targets == 1..NumTargets

\* Tasks that call try_load_extension / try_unload_extension at run time.
Callers == {"c1", "c2"}

\* Number of guild ids the gateway can know.
NumGuilds == 2

GuildIds == 1..NumGuilds

\* config.webhook_channel_ids, in the mapping's order: feed type and channel id.
Feeds == <<"main", "discussions">>

FeedTypes == {Feeds[i] : i \in 1..Len(Feeds)}

\* config.log_channel_id, config.help_channel_id and the feeds' channel ids.
ChannelIds == {"log", "help"} \cup FeedTypes

\* The memoized accessors.
Keys == {"ghostty_guild", "log_channel", "help_channel", "webhook_channels"}

\* The EmojiName literal, lines 28-41.
EmojiName ==
    <<"commit", "discussion", "discussion_answered", "discussion_duplicate",
      "discussion_outdated", "issue_closed_completed", "issue_closed_unplanned",
      "issue_open", "pull_closed", "pull_draft", "pull_merged", "pull_open">>

\* How many of the EmojiName labels, from the first on, the model works with.
NumEmojiNames == 2

\* frozenset(get_args(EmojiName))
valid_emoji_names == {EmojiName[i] : i \in 1..NumEmojiNames}

\* The names a guild emoji can have: the labels and one name that is no label.
GuildEmojiNames == valid_emoji_names \cup {"party"}

\* The on_ready handlers the gateway starts, one for each ready event.
Handlers == {"r1", "r2"}

\* What a candidate module is on disk:
\*   "good"     importable, callable setup that succeeds
\*   "failing"  importable, callable setup that always raises
\*   "nosetup"  importable, no setup attribute
\*   "absent"   the module system cannot locate it
ModuleKinds == {"good", "failing", "nosetup", "absent"}

\* What a candidate can be when discovery looks at it, in addition:
\*   "noncallable"  importable, a setup attribute that is not callable
\*   "broken"       executing the module raises (a syntax error, a failing
\*                  import, an exception at top level)
CandidateKinds == ModuleKinds \cup {"noncallable", "broken"}

VARIABLES
    kind,        \* [Modules -> ModuleKinds]: the module tree on disk
    extensions,  \* the active set: names in commands.Bot.extensions
    gitStatus,   \* bot_status.load_git_data(): "idle", "pending", "done", "failed"
    setupPc,     \* setup_hook: "start", "git", "join", "returned", "raised"
    task,        \* [Modules -> state of the TaskGroup task created for it]
    launched,    \* [Modules -> number of tasks setup_hook created for it]
    aborting,    \* TaskGroup._aborting: the group has cancelled its tasks
    setupLogs,   \* set of <<level, what, subject>> records written by setup_hook
    call,        \* [Callers -> the try_*_extension call each caller is in]
    focus,       \* the accessors a behaviour exercises (a set of Keys)
    guild_id,    \* config.guild_id; 0 when BOT_GUILD_ID is unset
    guilds,      \* gateway: the guilds the bot is in, in self.guilds order
    channels,    \* gateway: [ChannelIds -> the channel with that id, or NoChannel]
    cache,       \* [Keys -> the value cached_property stored, or NoValue]
    runs,        \* [Keys -> the function body ran "never", "once" or "again"]
    last,        \* the outcome of the access made in the latest step, if any
    guildEmojis, \* gateway: the emojis of the primary guild (ghostty_guild.emojis)
    emojis,      \* self._ghostty_emojis: [name -> emoji, Placeholder or NoEmoji]
    ready,       \* [Handlers -> the on_ready handler's place in load_emojis]
    readyFired,  \* the gateway has dispatched a ready event
    mh,          \* [MessageHandlers -> the on_message run for an inbound message]
    found,       \* what the latest get_component_extension_names call gave
    reload       \* [Callers -> the reload command the caller is running, if any]

bootVars == <<kind, extensions, gitStatus, setupPc, task, launched, aborting, setupLogs, call>>

cacheVars == <<focus, guild_id, guilds, channels, cache, runs, last>>

emojiVars == <<guildEmojis, emojis, ready, readyFired>>

gateVars == <<mh, found, reload>>

vars == <<bootVars, cacheVars, emojiVars, gateVars>>

\* ------------------------------------------------- the exception hierarchy

\* commands.ExtensionError and its subclasses, as raised by the module system.
ExtensionErrors ==
    {"ExtensionFailed", "ExtensionNotFound", "ExtensionAlreadyLoaded",
     "NoEntryPointError", "ExtensionNotLoaded"}

IsExtensionError(exc) == exc \in ExtensionErrors

\* ---------------------------------------------------------------- discovery

\* importlib.util.find_spec(extension) is truthy.
find_spec(m) == kind[m] # "absent"

\* callable(getattr(importlib.import_module(extension), "setup", None))
has_callable_setup(m) == kind[m] \in {"good", "failing"}

is_valid_extension(m) == find_spec(m) /\ has_callable_setup(m)

get_component_extension_names == {m \in Modules : is_valid_extension(m)}

\* importlib.import_module(extension) raises: it executes the module.
import_raises(m) == kind[m] = "broken"

\* A call of is_valid_extension on a name under app.components.: the `and`
\* chain stops at a falsy find_spec; import_module has no handler around it.
is_valid_extension_call(m) ==
    IF ~find_spec(m) THEN "False"
    ELSE IF import_raises(m) THEN "raise"
    ELSE IF has_callable_setup(m) THEN "True" ELSE "False"

\* The for loop of get_component_extension_names from candidate i on, in the
\* order walk_packages yields the names, with the set built so far.
RECURSIVE walk_packages(_, _)
walk_packages(i, modules) ==
    IF i > NumModules THEN [call |-> "discover", arg |-> 0, out |-> "value", names |-> modules]
    ELSE IF is_valid_extension_call(i) = "raise"
    THEN [call |-> "discover", arg |-> 0, out |-> "raise", names |-> {}]
    ELSE walk_packages(i + 1, IF is_valid_extension_call(i) = "True"
                              THEN modules \cup {i} ELSE modules)

NoDiscovery == [call |-> "none", arg |-> 0, out |-> "none", names |-> {}]

\* get_component_extension_names() is called.
Discover ==
    /\ found' = walk_packages(1, {})
    /\ UNCHANGED <<bootVars, cacheVars, emojiVars, mh, reload>>

\* is_valid_extension(m) is called on its own (by a reload command).
Validate(m) ==
    /\ found' = [call |-> "validate", arg |-> m, out |-> is_valid_extension_call(m),
                 names |-> {}]
    /\ UNCHANGED <<bootVars, cacheVars, emojiVars, mh, reload>>

\* ------------------------------------------------------- the module system

\* commands.Bot.load_extension up to its first suspension point: the name is
\* checked against the active set, the module is located and executed and its
\* setup looked up; "none" means setup(bot) is now being awaited.
LoadPrecheck(m) ==
    IF m \in extensions THEN "ExtensionAlreadyLoaded"
    ELSE IF kind[m] = "absent" THEN "ExtensionNotFound"
    ELSE IF kind[m] = "nosetup" THEN "NoEntryPointError"
    ELSE "none"

\* The rest of load_extension, once the awaited setup(bot) of module code `lib`
\* has finished: a raising setup is rolled back and wrapped in ExtensionFailed.
LoadOutcome(lib) == IF lib = "failing" THEN "ExtensionFailed" ELSE "none"

\* commands.Bot.unload_extension up to its first suspension point.
UnloadPrecheck(m) == IF m \in extensions THEN "none" ELSE "ExtensionNotLoaded"

\* ------------------------------------------------------------- setup_hook

TerminalTask == {"done", "failed", "cancelled"}

\* Mutant of GitAwaited: load_git_data() is started but not awaited.
GitAwaited_NotAwaited == gitStatus \in {"pending", "done"}

\* `await self.bot_status.load_git_data()` has returned.
GitAwaited == gitStatus = "done"

\* Mutant of GroupJoined: the fan-out stops waiting at the first failure.
GroupJoined_FirstFailure ==
    \/ \E m \in Modules : task[m] = "failed"
    \/ \A m \in Modules : task[m] \in {"done", "failed", "cancelled", "none"}

\* Leaving `async with asyncio.TaskGroup()`: every task of the group is done,
\* and the done-callback of a failed task has run (it aborts the group).
GroupJoined ==
    /\ \A m \in Modules : task[m] \in TerminalTask \cup {"none"}
    /\ (\E m \in Modules : task[m] = "failed") => aborting

\* Mutant of GroupOutcome: the tasks' errors are collected and dropped.
GroupOutcome_Swallowed == "returned"

\* What leaving the TaskGroup does: it raises the group of its tasks' errors.
GroupOutcome ==
    IF \E m \in Modules : task[m] = "failed" THEN "raised" ELSE "returned"

\* setup_hook is entered and awaits load_git_data.
SetupStart ==
    /\ setupPc = "start"
    /\ setupPc' = "git"
    /\ gitStatus' = "pending"
    /\ UNCHANGED <<gateVars, cacheVars, emojiVars, kind, extensions, task, launched, aborting, setupLogs, call>>

\* load_git_data finishes, normally or by raising.
GitFinish ==
    /\ gitStatus = "pending"
    /\ \E r \in {"done", "failed"} : gitStatus' = r
    /\ UNCHANGED <<gateVars, cacheVars, emojiVars, kind, extensions, setupPc, task, launched, aborting, setupLogs, call>>

\* load_git_data raised: the exception leaves setup_hook before the TaskGroup.
SetupGitRaised ==
    /\ setupPc = "git"
    /\ gitStatus = "failed"
    /\ setupPc' = "raised"
    /\ UNCHANGED <<gateVars, cacheVars, emojiVars, kind, extensions, gitStatus, task, launched, aborting, setupLogs, call>>

\* The for loop of setup_hook: one create_task per discovered extension, with
\* no suspension point until the TaskGroup is left.
SetupSpawn ==
    /\ setupPc = "git"
    /\ GitAwaited
    /\ setupPc' = "join"
    /\ task' = [m \in Modules |->
                  IF m \in get_component_extension_names THEN "created" ELSE task[m]]
    /\ launched' = [m \in Modules |->
                  IF m \in get_component_extension_names THEN launched[m] + 1
                  ELSE launched[m]]
    /\ UNCHANGED <<gateVars, cacheVars, emojiVars, kind, extensions, gitStatus, aborting, setupLogs, call>>

\* A task's first step: self.load_extension(extension) up to `await setup(bot)`.
TaskStart(m) ==
    /\ task[m] = "created"
    /\ task' = [task EXCEPT ![m] = IF LoadPrecheck(m) = "none" THEN "running" ELSE "failed"]
    /\ UNCHANGED <<gateVars, cacheVars, emojiVars, kind, extensions, gitStatus, setupPc, launched, aborting, setupLogs, call>>

\* setup(bot) finishes: the extension enters the active set, or ExtensionFailed
\* leaves load_extension and so the task (the task body has no handler).
TaskFinish(m) ==
    /\ task[m] = "running"
    /\ IF LoadOutcome(kind[m]) = "none"
       THEN /\ extensions' = extensions \cup {m}
            /\ task' = [task EXCEPT ![m] = "done"]
       ELSE /\ extensions' = extensions
            /\ task' = [task EXCEPT ![m] = "failed"]
    /\ UNCHANGED <<gateVars, cacheVars, emojiVars, kind, gitStatus, setupPc, launched, aborting, setupLogs, call>>

\* TaskGroup._on_task_done of the first failed task: the group cancels every
\* task that is not done yet.
GroupAbort ==
    /\ ~aborting
    /\ \E m \in Modules : task[m] = "failed"
    /\ aborting' = TRUE
    /\ task' = [m \in Modules |->
                  IF task[m] \in {"created", "running"} THEN "cancelling" ELSE task[m]]
    /\ UNCHANGED <<gateVars, cacheVars, emojiVars, kind, extensions, gitStatus, setupPc, launched, setupLogs, call>>

\* A cancelled task ends: CancelledError is no Exception, so load_extension
\* neither adds the extension nor wraps the error.
TaskCancelled(m) ==
    /\ task[m] = "cancelling"
    /\ task' = [task EXCEPT ![m] = "cancelled"]
    /\ UNCHANGED <<gateVars, cacheVars, emojiVars, kind, extensions, gitStatus, setupPc, launched, aborting, setupLogs, call>>

\* setup_hook leaves the TaskGroup: it raises the group's errors, or logs the
\* number of loaded extensions and returns.
SetupJoin ==
    /\ setupPc = "join"
    /\ GroupJoined
    /\ setupPc' = GroupOutcome
    /\ setupLogs' = IF GroupOutcome = "returned"
                     THEN setupLogs \cup {<<"info", "loaded", Cardinality(extensions)>>}
                     ELSE setupLogs
    /\ UNCHANGED <<gateVars, cacheVars, emojiVars, kind, extensions, gitStatus, task, launched, aborting, call>>

\* ------------------------------------------------- _try_extension and wrappers

IdleCall ==
    [st |-> "idle", op |-> "none", name |-> 0, lib |-> "none",
     exc |-> "none", ret |-> "none", logged |-> <<>>]

\* Mutant of extension_operation: the conditional is inverted.
extension_operation_Inverted(operation) ==
    IF operation = "load" THEN "unload_extension" ELSE "load_extension"

\* Lines 83-85: the bound method _try_extension awaits for `operation`.
extension_operation(operation) ==
    IF operation = "load" THEN "load_extension" ELSE "unload_extension"

\* Mutant of TryOutcome: `return True` follows the try statement instead of
\* sitting in its else clause.
TryOutcome_TrueAfterHandlers(exc) ==
    IF exc = "ExtensionFailed"
    THEN [ret |-> "True", logged |-> <<"exception">>]
    ELSE IF IsExtensionError(exc)
    THEN [ret |-> "True", logged |-> <<"warning">>]
    ELSE IF exc = "none"
    THEN [ret |-> "True", logged |-> <<>>]
    ELSE [ret |-> "raise", logged |-> <<>>]

\* Mutant of TryOutcome: the ExtensionFailed handler is missing, so the
\* ExtensionError handler takes its subclass too.
TryOutcome_OneHandler(exc) ==
    IF IsExtensionError(exc)
    THEN [ret |-> "False", logged |-> <<"warning">>]
    ELSE IF exc = "none"
    THEN [ret |-> "True", logged |-> <<>>]
    ELSE [ret |-> "raise", logged |-> <<>>]

\* The try statement of _try_extension, given what the awaited operation
\* raised ("none": nothing): what the call returns ("raise": the exception
\* leaves the call) and the log records it writes, as <<level>> tuples.
TryOutcome(exc) ==
    IF exc = "ExtensionFailed"
    THEN [ret |-> "False", logged |-> <<"exception">>]
    ELSE IF IsExtensionError(exc)
    THEN [ret |-> "False", logged |-> <<"warning">>]
    ELSE IF exc = "none"
    THEN [ret |-> "True", logged |-> <<>>]
    ELSE [ret |-> "raise", logged |-> <<>>]

DoneCall(c, exc) ==
    [call[c] EXCEPT !.st = "done", !.lib = "none", !.exc = exc,
                    !.ret = TryOutcome(exc).ret, !.logged = TryOutcome(exc).logged]

\* _try_extension(operation, m) up to the first suspension point of the
\* operation, or to the return that follows an error raised before it.
StartedCall(operation, m) ==
    LET pre == IF extension_operation(operation) = "load_extension"
               THEN LoadPrecheck(m) ELSE UnloadPrecheck(m)
        begun == [IdleCall EXCEPT !.st = "running", !.op = operation, !.name = m,
                                  !.lib = IF operation = "load" THEN kind[m] ELSE "none"]
    IN  IF pre = "none" THEN begun
        ELSE [begun EXCEPT !.st = "done", !.lib = "none", !.exc = pre,
                           !.ret = TryOutcome(pre).ret,
                           !.logged = TryOutcome(pre).logged]

\* try_load_extension / try_unload_extension is called: _try_extension runs
\* the operation up to its first suspension point, or to the error it raises
\* before suspending.
TryStart(c, operation, m) ==
    /\ setupPc = "returned"
    /\ call[c].st = "idle"
    /\ call' = [call EXCEPT ![c] = StartedCall(operation, m)]
    /\ UNCHANGED <<gateVars, cacheVars, emojiVars, kind, extensions, gitStatus, setupPc, task, launched, aborting, setupLogs>>

\* Mutant of TryFinish: a load whose activation failed is registered all the
\* same.
TryFinish_LoadsOnFailure(c) ==
    /\ call[c].st = "running"
    /\ LET m == call[c].name
           loading == extension_operation(call[c].op) = "load_extension"
           exc == IF loading THEN LoadOutcome(call[c].lib) ELSE "none"
       IN  /\ extensions' = IF loading THEN extensions \cup {m} ELSE extensions \ {m}
           /\ call' = [call EXCEPT ![c] = DoneCall(c, exc)]
    /\ UNCHANGED <<gateVars, cacheVars, emojiVars, kind, gitStatus, setupPc, task, launched, aborting, setupLogs>>

\* The awaited operation finishes and _try_extension returns.
TryFinish(c) ==
    /\ call[c].st = "running"
    /\ LET m == call[c].name
           loading == extension_operation(call[c].op) = "load_extension"
           exc == IF loading THEN LoadOutcome(call[c].lib) ELSE "none"
       IN  /\ extensions' = IF exc # "none" THEN extensions
                             ELSE IF loading THEN extensions \cup {m}
                             ELSE extensions \ {m}
           /\ call' = [call EXCEPT ![c] = DoneCall(c, exc)]
    /\ UNCHANGED <<gateVars, cacheVars, emojiVars, kind, gitStatus, setupPc, task, launched, aborting, setupLogs>>

\* The caller takes the result and is free to call again.
Resume(c) ==
    /\ call[c].st = "done"
    /\ reload[c] = 0
    /\ call' = [call EXCEPT ![c] = IdleCall]
    /\ UNCHANGED <<gateVars, cacheVars, emojiVars, kind, extensions, gitStatus, setupPc, task, launched, aborting, setupLogs>>

\* A reload, as a caller composes it: try_unload_extension(m) is called first.
ReloadStart(c, m) ==
    /\ setupPc = "returned"
    /\ call[c].st = "idle"
    /\ call' = [call EXCEPT ![c] = StartedCall("unload", m)]
    /\ reload' = [reload EXCEPT ![c] = m]
    /\ UNCHANGED <<cacheVars, emojiVars, mh, found, kind, extensions, gitStatus, setupPc, task, launched, aborting, setupLogs>>

\* The reload takes the unload's result: after true it calls
\* try_load_extension(m); after false it gives up.
ReloadNext(c) ==
    /\ reload[c] # 0
    /\ call[c].st = "done"
    /\ call[c].op = "unload"
    /\ IF call[c].ret = "True"
       THEN /\ call' = [call EXCEPT ![c] = StartedCall("load", reload[c])]
            /\ UNCHANGED reload
       ELSE /\ call' = [call EXCEPT ![c] = IdleCall]
            /\ reload' = [reload EXCEPT ![c] = 0]
    /\ UNCHANGED <<cacheVars, emojiVars, mh, found, kind, extensions, gitStatus, setupPc, task, launched, aborting, setupLogs>>

\* The reload takes the load's result and ends.
ReloadEnd(c) ==
    /\ reload[c] # 0
    /\ call[c].st = "done"
    /\ call[c].op = "load"
    /\ call' = [call EXCEPT ![c] = IdleCall]
    /\ reload' = [reload EXCEPT ![c] = 0]
    /\ UNCHANGED <<cacheVars, emojiVars, mh, found, kind, extensions, gitStatus, setupPc, task, launched, aborting, setupLogs>>

\* A module's file changes on disk while the bot runs (what a reload picks up).
Redeploy(m, k) ==
    /\ setupPc = "returned"
    /\ kind[m] # k
    /\ kind' = [kind EXCEPT ![m] = k]
    /\ UNCHANGED <<gateVars, cacheVars, emojiVars, extensions, gitStatus, setupPc, task, launched, aborting, setupLogs, call>>

\* ------------------------------------------------- the memoized accessors

NoValue == [t |-> "none"]

NoChannel == [t |-> "nochannel"]

Guild(g) == [t |-> "guild", gid |-> g]

Channel(id, k, g) == [t |-> "channel", id |-> id, kind |-> k, guild |-> g]

\* The channels the gateway can hold under an id. Log and help channels are
\* looked up in the client's cache whatever their guild, so one guild stands
\* for all; a feed's channel is looked up in one guild, where a text channel
\* can be in any guild and a channel of another kind is in the first.
ChannelValues(id) ==
    {NoChannel, Channel(id, "forum", 1)} \cup
    {Channel(id, "text", g) : g \in IF id \in FeedTypes THEN GuildIds ELSE {1}}

\* self.get_guild(id): the guild with that id, or None.
get_guild(id) ==
    IF \E i \in 1..Len(guilds) : guilds[i] = id THEN Guild(id) ELSE NoValue

\* self.get_channel(id)
get_channel(id) == channels[id]

\* guild.get_channel(id): the channel, when it belongs to that guild.
guild_get_channel(g, id) ==
    IF channels[id] # NoChannel /\ channels[id].guild = g.gid
    THEN channels[id] ELSE NoChannel

Returned(v, note) ==
    [out |-> "value", val |-> v, exc |-> "none", note |-> note, computed |-> TRUE]

Raised(exc, note) ==
    [out |-> "raise", val |-> NoValue, exc |-> exc, note |-> note, computed |-> TRUE]

\* Mutant of ghostty_guild_fn: the configured id is looked up but the first
\* guild is returned all the same.
ghostty_guild_fn_IgnoresConfig ==
    IF Len(guilds) = 0 THEN Raised("IndexError", "none")
    ELSE IF guild_id # 0 /\ get_guild(guild_id) # NoValue
    THEN Returned(Guild(guilds[1]), "found")
    ELSE Returned(Guild(guilds[1]), "fallback")

\* The body of ghostty_guild. The note is what it logs: "found" (trace) or
\* "fallback" (info); self.guilds[0] raises IndexError on an empty list.
ghostty_guild_fn ==
    IF guild_id # 0 /\ get_guild(guild_id) # NoValue
    THEN Returned(get_guild(guild_id), "found")
    ELSE IF Len(guilds) = 0 THEN Raised("IndexError", "none")
    ELSE Returned(Guild(guilds[1]), "fallback")

\* The body of log_channel: the assert passes for a text channel only.
log_channel_fn ==
    LET channel == get_channel("log")
    IN  IF channel # NoChannel /\ channel.kind = "text"
        THEN Returned(channel, "none") ELSE Raised("AssertionError", "none")

\* The body of help_channel: the assert passes for a forum channel only.
help_channel_fn ==
    LET channel == get_channel("help")
    IN  IF channel # NoChannel /\ channel.kind = "forum"
        THEN Returned(channel, "none") ELSE Raised("AssertionError", "none")

\* Mutant of webhook_loop: a feed whose channel is missing or of another kind
\* is skipped, and the loop goes on with the next feed.
RECURSIVE webhook_loop_SkipsOffending(_, _, _)
webhook_loop_SkipsOffending(i, g, built) ==
    IF i > Len(Feeds) THEN Returned([t |-> "map", m |-> built], "none")
    ELSE LET channel == guild_get_channel(g, Feeds[i])
         IN  IF channel = NoChannel \/ channel.kind # "text"
             THEN webhook_loop_SkipsOffending(i + 1, g, built)
             ELSE webhook_loop_SkipsOffending(i + 1, g, [built EXCEPT ![Feeds[i]] = channel])

\* The for loop of webhook_channels from feed i on, in guild g, with the
\* mapping built so far: TypeError at the first feed whose channel is absent
\* from the guild or is not a text channel; the note names the feed type.
RECURSIVE webhook_loop(_, _, _)
webhook_loop(i, g, built) ==
    IF i > Len(Feeds) THEN Returned([t |-> "map", m |-> built], "none")
    ELSE LET channel == guild_get_channel(g, Feeds[i])
         IN  IF channel = NoChannel \/ channel.kind # "text"
             THEN Raised("TypeError", Feeds[i])
             ELSE webhook_loop(i + 1, g, [built EXCEPT ![Feeds[i]] = channel])

\* One more run of a function body, counted up to "again" (more than once).
OneMore(n) == IF n = "never" THEN "once" ELSE "again"

\* Mutant of cached_get: the failure of the function body is remembered, and
\* later reads get the remembered failure without another run.
cached_get_FailureStored(k, c, r, body) ==
    IF c[k] # NoValue
    THEN [cache |-> c, runs |-> r,
          res |-> IF c[k] = [t |-> "failed"]
                  THEN [Raised("remembered", "none") EXCEPT !.computed = FALSE]
                  ELSE [Returned(c[k], "none") EXCEPT !.computed = FALSE]]
    ELSE [cache |-> [body.cache EXCEPT ![k] = IF body.res.out = "value"
                                              THEN body.res.val ELSE [t |-> "failed"]],
          runs |-> [body.runs EXCEPT ![k] = OneMore(@)],
          res |-> body.res]

\* Mutant of cached_get: a plain property, the value is not stored.
cached_get_NotStored(k, c, r, body) ==
    IF c[k] # NoValue
    THEN [cache |-> c, runs |-> r,
          res |-> [Returned(c[k], "none") EXCEPT !.computed = FALSE]]
    ELSE [cache |-> body.cache, runs |-> [body.runs EXCEPT ![k] = OneMore(@)],
          res |-> body.res]

\* discord.utils.cached_property.__get__ on key k, from cache c and run
\* counts r: a stored value is returned as it is; otherwise the function body
\* runs (body: the cache, run counts and result it leaves) and a returned
\* value is stored under k, while a raised exception stores nothing.
cached_get(k, c, r, body) ==
    IF c[k] # NoValue
    THEN [cache |-> c, runs |-> r,
          res |-> [Returned(c[k], "none") EXCEPT !.computed = FALSE]]
    ELSE [cache |-> IF body.res.out = "value"
                    THEN [body.cache EXCEPT ![k] = body.res.val] ELSE body.cache,
          runs |-> [body.runs EXCEPT ![k] = OneMore(@)],
          res |-> body.res]

\* An access to self.ghostty_guild, self.log_channel, self.help_channel.
get_ghostty_guild(c, r) ==
    cached_get("ghostty_guild", c, r, [cache |-> c, runs |-> r, res |-> ghostty_guild_fn])

get_log_channel(c, r) ==
    cached_get("log_channel", c, r, [cache |-> c, runs |-> r, res |-> log_channel_fn])

get_help_channel(c, r) ==
    cached_get("help_channel", c, r, [cache |-> c, runs |-> r, res |-> help_channel_fn])

\* The body of webhook_channels: each pass of the loop reads
\* self.ghostty_guild, which memoizes the guild at the first pass; with no
\* feed configured the guild is not read.
webhook_channels_fn(c, r) ==
    IF Len(Feeds) = 0
    THEN [cache |-> c, runs |-> r, res |-> Returned([t |-> "map", m |-> <<>>], "none")]
    ELSE LET g == get_ghostty_guild(c, r)
         IN  [cache |-> g.cache, runs |-> g.runs,
              res |-> IF g.res.out = "raise" THEN [g.res EXCEPT !.computed = TRUE]
                      ELSE webhook_loop(1, g.res.val, [f \in FeedTypes |-> NoChannel])]

get_webhook_channels(c, r) ==
    cached_get("webhook_channels", c, r, webhook_channels_fn(c, r))

Get(k) ==
    CASE k = "ghostty_guild" -> get_ghostty_guild(cache, runs)
      [] k = "log_channel" -> get_log_channel(cache, runs)
      [] k = "help_channel" -> get_help_channel(cache, runs)
      [] OTHER -> get_webhook_channels(cache, runs)

\* `last` when the latest step was no access.
NoAccess == [key |-> "none", res |-> Raised("none", "none")]

\* Some code of the bot reads accessor k.
Access(k) ==
    /\ k \in focus
    /\ LET got == Get(k)
       IN  /\ cache' = got.cache
           /\ runs' = got.runs
           /\ last' = [key |-> k, res |-> got.res]
    /\ UNCHANGED <<gateVars, bootVars, emojiVars, focus, guild_id, guilds, channels>>

\* An account, by what is_ghostty_mod reads of it: whether the primary guild
\* has a member with its id, and what is_mod says of that member.
Accounts == [member : BOOLEAN, mod : BOOLEAN]

\* is_ghostty_mod(user): reads self.ghostty_guild, then
\* `member is not None and is_mod(member)`.
is_ghostty_mod(c, r, user) ==
    LET g == get_ghostty_guild(c, r)
    IN  [cache |-> g.cache, runs |-> g.runs, guild |-> g.res,
         res |-> IF g.res.out = "raise" THEN "raise"
                 ELSE IF user.member /\ user.mod THEN "True" ELSE "False"]

\* A component asks whether an account is a moderator.
IsGhosttyMod(user) ==
    /\ "ghostty_guild" \in focus
    /\ LET got == is_ghostty_mod(cache, runs, user)
       IN  /\ cache' = got.cache
           /\ runs' = got.runs
           /\ last' = [key |-> "ghostty_guild", res |-> got.guild]
    /\ UNCHANGED <<gateVars, bootVars, emojiVars, focus, guild_id, guilds, channels>>

\* The gateway's state changes: the bot leaves or joins a guild.
GuildLeave(g) ==
    /\ "ghostty_guild" \in focus
    /\ \E i \in 1..Len(guilds) :
          /\ guilds[i] = g
          /\ guilds' = [j \in 1..(Len(guilds) - 1) |->
                          IF j < i THEN guilds[j] ELSE guilds[j + 1]]
    /\ last' = NoAccess
    /\ UNCHANGED <<gateVars, bootVars, emojiVars, focus, guild_id, channels, cache, runs>>

GuildJoin(g) ==
    /\ "ghostty_guild" \in focus
    /\ \A i \in 1..Len(guilds) : guilds[i] # g
    /\ guilds' = Append(guilds, g)
    /\ last' = NoAccess
    /\ UNCHANGED <<gateVars, bootVars, emojiVars, focus, guild_id, channels, cache, runs>>

\* The accessor that reads the channel with this id.
ReaderOf(id) ==
    IF id = "log" THEN "log_channel"
    ELSE IF id = "help" THEN "help_channel" ELSE "webhook_channels"

\* The gateway's state changes: a channel is created, deleted or replaced.
ChannelChange(id, ch) ==
    /\ ReaderOf(id) \in focus
    /\ channels[id] # ch
    /\ channels' = [channels EXCEPT ![id] = ch]
    /\ last' = NoAccess
    /\ UNCHANGED <<gateVars, bootVars, emojiVars, focus, guild_id, guilds, cache, runs>>

\* ---------------------------------------------------------- the emoji cache

NoEmoji == [t |-> "nokey"]

\* The "❓" string load_emojis stores for a missing label.
Placeholder == [t |-> "placeholder"]

\* A dc.Emoji of the guild, by its name (a guild has one emoji of a name).
Emoji(n) == [t |-> "emoji", name |-> n]

IdleReady == [st |-> "idle", seen |-> {}, missing |-> {}, sent |-> <<>>]

\* Mutant of emoji_pass: the mapping is built anew from the guild's emojis.
emoji_pass_Rebuilds(e) ==
    [n \in GuildEmojiNames |->
        IF Emoji(n) \in guildEmojis /\ n \in valid_emoji_names THEN Emoji(n) ELSE NoEmoji]

\* The for loop of load_emojis over the guild's emojis, from mapping e.
emoji_pass(e) ==
    [n \in GuildEmojiNames |->
        IF Emoji(n) \in guildEmojis /\ n \in valid_emoji_names THEN Emoji(n) ELSE e[n]]

\* valid_emoji_names - self._ghostty_emojis.keys()
missing_emojis(e) == {n \in valid_emoji_names : e[n] = NoEmoji}

\* The messages one load_emojis call sends for its missing labels.
warning_for(missing) == <<missing>>

\* self._ghostty_emojis |= dict.fromkeys(missing_emojis, "❓")
with_placeholders(e, missing) ==
    [n \in GuildEmojiNames |-> IF n \in missing THEN Placeholder ELSE e[n]]

\* Mutant of HandledEvent: the handler is named on_connect.
HandledEvent_Connect == "connect"

\* The gateway event whose dispatch runs the handler that calls load_emojis:
\* the client dispatches by method name, and the method is on_ready.
HandledEvent == "ready"

\* The gateway dispatches the event on_ready handles, once the client is
\* connected: on_ready calls load_emojis, which runs to its end when no label
\* is missing, raises when the log channel cannot be resolved, and otherwise
\* suspends in log_channel.send.
ReadyStart(h) ==
    /\ setupPc = "returned"
    /\ ready[h].st = "idle"
    /\ readyFired' = (readyFired \/ HandledEvent = "ready")
    /\ LET g == get_ghostty_guild(cache, runs)
           e == emoji_pass(emojis)
           missing == missing_emojis(e)
           lc == get_log_channel(g.cache, g.runs)
           seen == {n \in valid_emoji_names : Emoji(n) \in guildEmojis}
       IN  IF g.res.out = "raise"
           THEN /\ ready' = [ready EXCEPT ![h] = [IdleReady EXCEPT !.st = "raised"]]
                /\ cache' = g.cache /\ runs' = g.runs
                /\ UNCHANGED emojis
           ELSE /\ emojis' = e
                /\ IF missing = {}
                   THEN /\ ready' = [ready EXCEPT ![h] = [IdleReady EXCEPT !.st = "done"]]
                        /\ cache' = g.cache /\ runs' = g.runs
                   ELSE /\ cache' = lc.cache /\ runs' = lc.runs
                        /\ ready' = [ready EXCEPT ![h] =
                              IF lc.res.out = "raise"
                              THEN [IdleReady EXCEPT !.st = "raised"]
                              ELSE [IdleReady EXCEPT !.st = "sending", !.seen = seen,
                                                     !.missing = missing]]
    /\ UNCHANGED <<gateVars, bootVars, focus, guild_id, guilds, channels, last, guildEmojis>>

\* The awaited send returns: the placeholders are stored and on_ready ends.
SendDone(h) ==
    /\ ready[h].st = "sending"
    /\ emojis' = with_placeholders(emojis, ready[h].missing)
    /\ ready' = [ready EXCEPT ![h] =
                    [IdleReady EXCEPT !.st = "done",
                                      !.sent = warning_for(ready[h].missing)]]
    /\ UNCHANGED <<gateVars, bootVars, cacheVars, guildEmojis, readyFired>>

\* The awaited send raises (an HTTP error): load_emojis raises.
SendFailed(h) ==
    /\ ready[h].st = "sending"
    /\ ready' = [ready EXCEPT ![h] = [IdleReady EXCEPT !.st = "raised"]]
    /\ UNCHANGED <<gateVars, bootVars, cacheVars, guildEmojis, emojis, readyFired>>

\* The gateway's state changes: an emoji is added to or removed from the guild.
EmojiAdded(n) ==
    /\ Emoji(n) \notin guildEmojis
    /\ guildEmojis' = guildEmojis \cup {Emoji(n)}
    /\ UNCHANGED <<gateVars, bootVars, cacheVars, emojis, ready, readyFired>>

EmojiRemoved(n) ==
    /\ Emoji(n) \in guildEmojis
    /\ guildEmojis' = guildEmojis \ {Emoji(n)}
    /\ UNCHANGED <<gateVars, bootVars, cacheVars, emojis, ready, readyFired>>

\* ------------------------------------------------------- the message gate

\* The on_message runs the gateway starts, one for each inbound message; a
\* run ends before the next message's run takes its place.
MessageHandlers == {"m1"}

\* An inbound message, by what on_message and the filter read of it:
\*   bot       message.author.bot
\*   regular   message.type in REGULAR_MESSAGE_TYPES
\*   dm        message.guild is None
\*   content   message.content
\*   filtered  what MessageFilter.check(message) returns for it
Messages ==
    [bot : BOOLEAN, regular : BOOLEAN, dm : BOOLEAN,
     content : {"ping", "ping?"}, filtered : BOOLEAN]

NoMessage == [content |-> "none"]

IdleMessage ==
    [st |-> "idle", msg |-> NoMessage, replies |-> <<>>,
     lookups |-> 0, checks |-> 0, events |-> <<>>]

\* The module whose setup adds the cog named "MessageFilter".
FilterModule == 1

\* self.get_cog(name): the cog of that name, which the filter component's
\* setup adds and its unloading removes; "none" for None.
get_cog(name) ==
    IF name = "MessageFilter" /\ FilterModule \in extensions THEN "cog" ELSE "none"

\* Mutant of fails_message_filters: a missing filter rejects every message.
fails_message_filters_ClosedWhenAbsent(message) ==
    LET message_filter == get_cog("MessageFilter")
    IN  [fails |-> IF message_filter = "none" THEN TRUE ELSE message.filtered,
         checks |-> IF message_filter = "none" THEN 0 ELSE 1]

\* _fails_message_filters: bool(message_filter and message_filter.check(message)),
\* with the number of check calls the `and` makes.
fails_message_filters(message) ==
    LET message_filter == get_cog("MessageFilter")
    IN  [fails |-> message_filter # "none" /\ message.filtered,
         checks |-> IF message_filter = "none" THEN 0 ELSE 1]

\* Mutant of on_message: the early return for bot authors and irregular
\* message types is missing.
on_message_NoEarlyReturn(message) ==
    IF message.dm /\ message.content = "ping"
    THEN [IdleMessage EXCEPT !.st = "replying", !.msg = message, !.replies = <<"pong">>]
    ELSE LET f == fails_message_filters(message)
         IN  [IdleMessage EXCEPT !.st = "done", !.msg = message, !.lookups = 1,
                                 !.checks = f.checks,
                                 !.events = IF f.fails THEN <<>>
                                            ELSE <<"message_filter_passed">>]

\* on_message up to its return or its one suspension point: the early
\* return, the direct-message ping (try_dm is called with "pong" and
\* awaited), or the filter lookup and the dispatch of the derived event.
on_message(message) ==
    IF message.bot \/ ~message.regular
    THEN [IdleMessage EXCEPT !.st = "done", !.msg = message]
    ELSE IF message.dm /\ message.content = "ping"
    THEN [IdleMessage EXCEPT !.st = "replying", !.msg = message, !.replies = <<"pong">>]
    ELSE LET f == fails_message_filters(message)
         IN  [IdleMessage EXCEPT !.st = "done", !.msg = message, !.lookups = 1,
                                 !.checks = f.checks,
                                 !.events = IF f.fails THEN <<>>
                                            ELSE <<"message_filter_passed">>]

\* The gateway delivers a message once the client is connected (setup_hook
\* has returned; the ready event may not have been dispatched yet).
Message(h, message) ==
    /\ setupPc = "returned"
    /\ mh[h].st = "idle"
    /\ mh' = [mh EXCEPT ![h] = on_message(message)]
    /\ UNCHANGED <<bootVars, cacheVars, emojiVars, found, reload>>

\* The awaited try_dm returns, or raises, and on_message ends.
MessageReplied(h) ==
    /\ mh[h].st = "replying"
    /\ \E r \in {"done", "raised"} : mh' = [mh EXCEPT ![h].st = r]
    /\ UNCHANGED <<bootVars, cacheVars, emojiVars, found, reload>>

\* The run of on_message is over; the next message can take its place.
MessageEnd(h) ==
    /\ mh[h].st \in {"done", "raised"}
    /\ mh' = [mh EXCEPT ![h] = IdleMessage]
    /\ UNCHANGED <<bootVars, cacheVars, emojiVars, found, reload>>

\* ------------------------------------------------------ the specifications

\* No message has arrived, discovery has not been called at run time and no
\* reload command is running.
GateIdle ==
    /\ mh = [h \in MessageHandlers |-> IdleMessage]
    /\ found = NoDiscovery
    /\ reload = [c \in Callers |-> 0]


\* GhosttyBot.__init__ stores nothing under the accessors' names; the gateway
\* starts with every guild and every configured channel in place.
CacheInit ==
    /\ guilds = [i \in 1..NumGuilds |-> i]
    /\ channels = [id \in ChannelIds |->
                     Channel(id, IF id = "help" THEN "forum" ELSE "text", 1)]
    /\ cache = [k \in Keys |-> NoValue]
    /\ runs = [k \in Keys |-> "never"]
    /\ last = NoAccess

CacheIdle == focus = {} /\ guild_id = 0 /\ CacheInit

\* self._ghostty_emojis = {}, with no ready event yet; the guild has no emoji.
EmojiInit ==
    /\ emojis = [n \in GuildEmojiNames |-> NoEmoji]
    /\ ready = [h \in Handlers |-> IdleReady]
    /\ readyFired = FALSE

EmojiIdle == guildEmojis = {} /\ EmojiInit

\* The state after GhosttyBot.__init__, for each module tree.
Init ==
    /\ kind \in [Modules -> ModuleKinds]
    /\ extensions = {}
    /\ gitStatus = "idle"
    /\ setupPc = "start"
    /\ task = [m \in Modules |-> "none"]
    /\ launched = [m \in Modules |-> 0]
    /\ aborting = FALSE
    /\ setupLogs = {}
    /\ call = [c \in Callers |-> IdleCall]
    /\ CacheIdle
    /\ EmojiIdle
    /\ GateIdle

\* Discovery on each module tree, before anything is loaded.
InitDiscovery ==
    /\ kind \in [Modules -> CandidateKinds]
    /\ extensions = {}
    /\ gitStatus = "idle"
    /\ setupPc = "start"
    /\ task = [m \in Modules |-> "none"]
    /\ launched = [m \in Modules |-> 0]
    /\ aborting = FALSE
    /\ setupLogs = {}
    /\ call = [c \in Callers |-> IdleCall]
    /\ CacheIdle
    /\ EmojiIdle
    /\ GateIdle

NextDiscovery ==
    \/ Discover
    \/ \E m \in Modules : Validate(m)

SpecDiscovery == InitDiscovery /\ [][NextDiscovery]_vars

\* Bootstrap: setup_hook and the tasks of its TaskGroup.
NextBoot ==
    \/ SetupStart
    \/ GitFinish
    \/ SetupGitRaised
    \/ SetupSpawn
    \/ \E m \in Modules : TaskStart(m)
    \/ \E m \in Modules : TaskFinish(m)
    \/ GroupAbort
    \/ \E m \in Modules : TaskCancelled(m)
    \/ SetupJoin

SpecBoot == Init /\ [][NextBoot]_vars

\* The state setup_hook leaves when it returns: every module of the tree was
\* discovered and loaded.
BootDone ==
    /\ kind = [m \in Modules |-> "good"]
    /\ extensions = Modules
    /\ gitStatus = "done"
    /\ setupPc = "returned"
    /\ task = [m \in Modules |-> "done"]
    /\ launched = [m \in Modules |-> 1]
    /\ aborting = FALSE
    /\ setupLogs = {<<"info", "loaded", NumModules>>}
    /\ call = [c \in Callers |-> IdleCall]

InitLoader == BootDone /\ CacheIdle /\ EmojiIdle /\ GateIdle

\* Run time: callers load and unload the target names while files change.
NextLoader ==
    \/ \E c \in Callers, operation \in {"load", "unload"}, m \in Targets :
          TryStart(c, operation, m)
    \/ \E c \in Callers : TryFinish(c)
    \/ \E c \in Callers : Resume(c)
    \/ \E m \in Targets, k \in ModuleKinds : Redeploy(m, k)

SpecLoader == InitLoader /\ [][NextLoader]_vars

\* The accessors a behaviour reads: one of them, and with webhook_channels
\* the ghostty_guild it resolves its channels in. The accessors share no
\* other state, so the gateway objects the others read stay as they are.
Focuses ==
    {{"ghostty_guild"}, {"log_channel"}, {"help_channel"},
     {"webhook_channels", "ghostty_guild"}}

\* The bot is connected, for each configuration of BOT_GUILD_ID.
InitCache ==
    /\ BootDone
    /\ focus \in Focuses
    /\ guild_id \in IF "ghostty_guild" \in focus THEN 0..NumGuilds ELSE {0}
    /\ CacheInit
    /\ EmojiIdle
    /\ GateIdle

\* Run time: the accessors are read while the gateway's state changes.
NextCache ==
    \/ \E k \in Keys : Access(k)
    \/ \E user \in Accounts : IsGhosttyMod(user)
    \/ \E g \in GuildIds : GuildLeave(g)
    \/ \E g \in GuildIds : GuildJoin(g)
    \/ \E id \in ChannelIds : \E ch \in ChannelValues(id) : ChannelChange(id, ch)

SpecCache == InitCache /\ [][NextCache]_vars

\* The bot is connected, for each set of guild emojis and with the log
\* channel in place or missing.
InitEmoji ==
    /\ BootDone
    /\ focus = {}
    /\ guild_id = 0
    /\ guilds = [i \in 1..NumGuilds |-> i]
    /\ channels \in {[id \in ChannelIds |->
                        IF id = "log" THEN lc
                        ELSE Channel(id, IF id = "help" THEN "forum" ELSE "text", 1)] :
                     lc \in {Channel("log", "text", 1), NoChannel}}
    /\ cache = [k \in Keys |-> NoValue]
    /\ runs = [k \in Keys |-> "never"]
    /\ last = NoAccess
    /\ guildEmojis \in SUBSET {Emoji(n) : n \in GuildEmojiNames}
    /\ EmojiInit
    /\ GateIdle

\* Run time: ready events arrive while the guild's emojis change.
NextEmoji ==
    \/ \E h \in Handlers : ReadyStart(h)
    \/ \E h \in Handlers : SendDone(h)
    \/ \E h \in Handlers : SendFailed(h)
    \/ \E n \in GuildEmojiNames : EmojiAdded(n)
    \/ \E n \in GuildEmojiNames : EmojiRemoved(n)

SpecEmoji == InitEmoji /\ [][NextEmoji]_vars

\* The messages that pass the early return and are no direct-message ping.
GateMessages ==
    {message \in Messages :
        /\ ~message.bot /\ message.regular
        /\ ~(message.dm /\ message.content = "ping")}

\* Run time: callers reload and load the filter component while its file
\* changes and messages arrive.
NextGate ==
    \/ \E c \in Callers : ReloadStart(c, FilterModule)
    \/ \E c \in Callers : ReloadNext(c)
    \/ \E c \in Callers : ReloadEnd(c)
    \/ \E c \in Callers : TryStart(c, "load", FilterModule)
    \/ \E c \in Callers : TryFinish(c)
    \/ \E c \in Callers : Resume(c)
    \/ \E k \in ModuleKinds : Redeploy(FilterModule, k)
    \/ \E h \in MessageHandlers, message \in GateMessages : Message(h, message)
    \/ \E h \in MessageHandlers : MessageEnd(h)

SpecGate == InitLoader /\ [][NextGate]_vars

\* The life of the process: bootstrap, then ready events and messages.
NextLife ==
    \/ NextBoot
    \/ \E h \in Handlers : ReadyStart(h)
    \/ \E h \in Handlers : SendDone(h)
    \/ \E h \in Handlers : SendFailed(h)
    \/ \E h \in MessageHandlers, message \in Messages : Message(h, message)
    \/ \E h \in MessageHandlers : MessageReplied(h)
    \/ \E h \in MessageHandlers : MessageEnd(h)

SpecLife == Init /\ [][NextLife]_vars

\* ------------------------------------------------------------ the claims

SetupEnded == setupPc \in {"returned", "raised"}

\* The fan-out of setup_hook was reached.
FanOutReached == gitStatus = "done" /\ setupPc \in {"join", "returned", "raised"}

AlwaysFailing == {m \in get_component_extension_names : kind[m] = "failing"}

\* C1 (as claimed): when exactly one discovered extension k always fails
\* activation, setup_hook ends with every other discovered extension in the
\* active set and a failure logged for k.
C1_OthersActiveAndFailureLogged ==
    \A k \in Modules :
        (SetupEnded /\ FanOutReached /\ AlwaysFailing = {k})
            => /\ extensions = get_component_extension_names \ {k}
               /\ \E level \in {"exception", "warning"} : <<level, "load", k>> \in setupLogs

\* C2: once setup_hook has ended, a task that ended with an exception means
\* setup_hook raised; and setup_hook returns only with every discovered
\* extension in the active set, never with a partial set.
C2_EscapedFailureFailsBootstrap ==
    /\ (SetupEnded /\ \E m \in Modules : task[m] = "failed") => setupPc = "raised"
    /\ setupPc = "returned" => get_component_extension_names \subseteq extensions

\* C2 witness: setup_hook raised after a task failed, with part of the
\* discovered extensions active.
C2_Witness ==
    /\ setupPc = "raised"
    /\ \E m \in Modules : task[m] = "failed"
    /\ extensions # {}
    /\ extensions # get_component_extension_names

\* C6: once the fan-out is reached, exactly one task was created for each
\* discovered extension and none for any other module; and setup_hook has
\* neither returned nor raised while a task it created is unfinished.
C6_OneTaskEachAllAwaited ==
    /\ FanOutReached =>
          \A m \in Modules :
              launched[m] = IF m \in get_component_extension_names THEN 1 ELSE 0
    /\ SetupEnded =>
          \A m \in Modules : launched[m] > 0 => task[m] \in TerminalTask

\* C6 witness: setup_hook ended after tasks with all three outcomes finished.
C6_Witness ==
    /\ SetupEnded
    /\ \E m \in Modules : task[m] = "done"
    /\ \E m \in Modules : task[m] = "failed"
    /\ \E m \in Modules : task[m] = "cancelled"

\* C7: a task exists only once load_git_data has completed: none is created
\* while it is pending, and none after it failed.
C7_StatusBeforeActivation ==
    \A m \in Modules :
        (task[m] # "none" \/ launched[m] > 0) => gitStatus = "done"

\* C7 witness: an activation is running, after load_git_data completed.
C7_Witness == gitStatus = "done" /\ \E m \in Modules : task[m] = "running"

\* A call by c makes a step (only c's own steps change call[c]).
StepOf(c) == call'[c] # call[c] /\ call'[c].st # "idle"

ReturnsTrue(c) == call'[c].st = "done" /\ call'[c].ret = "True"

\* C3: a try_load_extension / try_unload_extension call that returns true
\* leaves its target in the active set (load) or out of it (unload) at the
\* return; every step of a call that does not return true, so every call
\* that returns false, leaves the active set as it found it.
C3_FullyInOrOut ==
    [][\A c \in Callers :
          StepOf(c) =>
            /\ (ReturnsTrue(c) /\ call'[c].op = "load")
                  => call'[c].name \in extensions'
            /\ (ReturnsTrue(c) /\ call'[c].op = "unload")
                  => call'[c].name \notin extensions'
            /\ ~ReturnsTrue(c) => extensions' = extensions]_vars

\* C3 witness: one call has returned true and another one false after the
\* activation routine failed.
C3_Witness ==
    \E c, d \in Callers :
        /\ call[c].st = "done" /\ call[c].ret = "True"
        /\ call[d].st = "done" /\ call[d].ret = "False"
        /\ call[d].exc = "ExtensionFailed"

\* A call by c begins in this step.
Begins(c) == call[c].st = "idle" /\ call'[c].st # "idle"

\* C4: a try_load_extension call on a name in the active set, and a
\* try_unload_extension call on a name not in it, returns false at once and
\* leaves the active set unchanged, each time it is made.
C4_IdempotentFailure ==
    [][\A c \in Callers :
          (/\ Begins(c)
           /\ \/ call'[c].op = "load" /\ call'[c].name \in extensions
              \/ call'[c].op = "unload" /\ call'[c].name \notin extensions)
            => /\ call'[c].st = "done"
               /\ call'[c].ret = "False"
               /\ extensions' = extensions]_vars

\* C4 witness: the same load of an active name was made twice, and both
\* calls returned false.
C4_Witness ==
    \E m \in Targets :
        /\ m \in extensions
        /\ \A c \in Callers :
              /\ call[c].st = "done" /\ call[c].op = "load" /\ call[c].name = m
              /\ call[c].exc = "ExtensionAlreadyLoaded" /\ call[c].ret = "False"

\* C5: a finished call never raised; when its operation raised, the call
\* returned false and wrote exactly one record: an exception record for a
\* failed activation routine, a warning for any other module-system error.
C5_ErrorsCaughtAndClassified ==
    \A c \in Callers :
        call[c].st = "done" =>
            /\ call[c].ret # "raise"
            /\ call[c].exc # "none" =>
                  /\ call[c].ret = "False"
                  /\ call[c].logged =
                        <<IF call[c].exc = "ExtensionFailed" THEN "exception" ELSE "warning">>
            /\ call[c].exc = "none" => call[c].ret = "True" /\ call[c].logged = <<>>

\* C5 witness: one finished call logged a failed activation routine and
\* another one a module-system failure.
C5_Witness ==
    \E c, d \in Callers :
        /\ call[c].st = "done" /\ call[c].logged = <<"exception">>
        /\ call[d].st = "done" /\ call[d].logged = <<"warning">>

\* Accessor k is read in this step (a read that changes nothing repeats the
\* read before it, in the same state).
Accessed(k) == last'.key = k /\ (last' # last \/ runs' # runs)

\* The configured guild id is set and the gateway knows a guild with that id.
ConfiguredGuildKnown == guild_id # 0 /\ \E i \in 1..Len(guilds) : guilds[i] = guild_id

\* C8: a read of ghostty_guild with nothing memoized returns the configured
\* guild when the id is set and the gateway knows it; otherwise, with at
\* least one guild, it returns the first guild, logs the fallback and does not
\* raise. The returned guild is memoized, and a read that finds a memoized
\* guild returns that same guild.
C8_GuildResolution ==
    [][Accessed("ghostty_guild") =>
         /\ (cache["ghostty_guild"] = NoValue /\ ConfiguredGuildKnown)
               => /\ last'.res.out = "value"
                  /\ last'.res.val = Guild(guild_id)
         /\ (cache["ghostty_guild"] = NoValue /\ ~ConfiguredGuildKnown /\ Len(guilds) > 0)
               => /\ last'.res.out = "value"
                  /\ last'.res.val = Guild(guilds[1])
                  /\ last'.res.note = "fallback"
         /\ last'.res.out = "value" => cache'["ghostty_guild"] = last'.res.val
         /\ cache["ghostty_guild"] # NoValue
               => /\ last'.res.out = "value"
                  /\ last'.res.val = cache["ghostty_guild"]]_vars

\* C8 witness: a second read returned the memoized configured guild, which is
\* not the bot's first guild.
C8_Witness ==
    /\ last.key = "ghostty_guild"
    /\ ~last.res.computed
    /\ guild_id # 0
    /\ last.res.val = Guild(guild_id)
    /\ Len(guilds) > 0
    /\ guilds[1] # guild_id

\* C9 (as claimed): the function body of each accessor runs at most once.
C9_ComputedAtMostOnce == \A k \in Keys : runs[k] \in {"never", "once"}

\* C9 (amended): once an accessor has a memoized value, that value never
\* changes and the function body never runs again: every read returns the
\* memoized value, whatever the gateway holds by then. A read that runs the
\* function body and returns memoizes what it returns.
C9_MemoizedOnceStored ==
    [][\A k \in Keys :
         /\ cache[k] # NoValue =>
               /\ cache'[k] = cache[k]
               /\ runs'[k] = runs[k]
               /\ Accessed(k) => /\ ~last'.res.computed
                                 /\ last'.res.out = "value"
                                 /\ last'.res.val = cache[k]
         /\ (Accessed(k) /\ last'.res.out = "value") => cache'[k] = last'.res.val]_vars

\* C9 witness: a read returned the memoized log channel although the gateway
\* no longer holds that channel.
C9_Witness ==
    /\ last.key = "log_channel"
    /\ ~last.res.computed
    /\ last.res.val = cache["log_channel"]
    /\ get_channel("log") # cache["log_channel"]

\* A load_emojis call of handler h completes in this step.
Completes(h) == ready[h].st # "done" /\ ready'[h].st = "done"

\* The labels the guild had an emoji for when the completing call of h
\* iterated over the guild's emojis.
LabelsPresent(h) ==
    IF ready[h].st = "sending" THEN ready[h].seen
    ELSE {n \in valid_emoji_names : Emoji(n) \in guildEmojis}

\* C10 (as claimed): when a load_emojis call completes, each label the guild
\* has an emoji for maps to that emoji, every other label maps to the
\* placeholder, no other name is a key, and the call has sent exactly one
\* warning naming the labels without emoji, or none when there is none.
C10_CacheExactAfterLoad ==
    [][\A h \in Handlers :
         Completes(h) =>
           /\ \A n \in valid_emoji_names :
                 emojis'[n] = IF n \in LabelsPresent(h) THEN Emoji(n) ELSE Placeholder
           /\ \A n \in GuildEmojiNames \ valid_emoji_names : emojis'[n] = NoEmoji
           /\ ready'[h].sent =
                 IF valid_emoji_names \ LabelsPresent(h) = {} THEN <<>>
                 ELSE <<valid_emoji_names \ LabelsPresent(h)>>]_vars

\* The same statement for a call made on the empty cache with no other call
\* begun, which the code satisfies.
C10_FirstLoadExact ==
    [][\A h \in Handlers :
         (/\ Completes(h)
          /\ \A o \in Handlers \ {h} : ready[o].st = "idle")
           => /\ \A n \in valid_emoji_names :
                    emojis'[n] = IF n \in LabelsPresent(h) THEN Emoji(n) ELSE Placeholder
              /\ \A n \in GuildEmojiNames \ valid_emoji_names : emojis'[n] = NoEmoji
              /\ ready'[h].sent =
                    IF valid_emoji_names \ LabelsPresent(h) = {} THEN <<>>
                    ELSE <<valid_emoji_names \ LabelsPresent(h)>>]_vars

\* The message is a direct message whose content is exactly "ping".
IsPing(message) == message.dm /\ message.content = "ping"

\* C11: a run of on_message on a message from a bot account, or of a type
\* outside the regular ones, ends at once with no reply, no filter lookup, no
\* filter check and no event; a run on a direct "ping" from a non-bot makes
\* exactly one reply, "pong", and neither a lookup, a check nor an event, up
\* to and after its suspension in the reply.
C11_RejectsAndPing ==
    \A h \in MessageHandlers :
        mh[h].st # "idle" =>
            /\ (mh[h].msg.bot \/ ~mh[h].msg.regular) =>
                  /\ mh[h].st = "done"
                  /\ mh[h].replies = <<>>
                  /\ mh[h].lookups = 0 /\ mh[h].checks = 0
                  /\ mh[h].events = <<>>
            /\ (~mh[h].msg.bot /\ mh[h].msg.regular /\ IsPing(mh[h].msg)) =>
                  /\ mh[h].replies = <<"pong">>
                  /\ mh[h].lookups = 0 /\ mh[h].checks = 0
                  /\ mh[h].events = <<>>

\* C11 witness: the run on a direct "ping" from a non-bot has ended after its
\* one reply, with the filter component active.
C11_Witness ==
    \E h \in MessageHandlers :
        /\ mh[h].st = "done"
        /\ ~mh[h].msg.bot /\ mh[h].msg.regular /\ IsPing(mh[h].msg)
        /\ mh[h].replies = <<"pong">>
        /\ get_cog("MessageFilter") # "none"

\* A run of on_message by h handles a message in this step.
Handles(h) == mh[h].st = "idle" /\ mh'[h].st # "idle"

\* C12: a run of on_message on a regular message from a non-bot that is no
\* direct "ping" emits exactly one message_filter_passed event when the
\* MessageFilter cog is absent at that moment or its check returns false, and
\* none when the cog is there and its check returns true, whatever the
\* callers that load and unload the component are doing.
C12_PassedUnlessFiltered ==
    [][\A h \in MessageHandlers :
          (Handles(h) /\ mh'[h].msg \in GateMessages) =>
              mh'[h].events =
                  IF get_cog("MessageFilter") = "none" \/ ~mh'[h].msg.filtered
                  THEN <<"message_filter_passed">> ELSE <<>>]_vars

\* C12 witness: a message the filter rejects was passed, and the filter
\* component is out of the active set between the unload and the load of a
\* reload whose load is still running.
C12_Witness ==
    \E h \in MessageHandlers, c \in Callers :
        /\ mh[h].st = "done"
        /\ mh[h].msg.filtered
        /\ mh[h].events = <<"message_filter_passed">>
        /\ reload[c] = FilterModule
        /\ call[c].op = "load" /\ call[c].st = "running"
        /\ FilterModule \notin extensions

Qualifying == {m \in Modules : kind[m] \in {"good", "failing"}}

\* C14 (as claimed): a call of get_component_extension_names returns, and
\* returns exactly the locatable candidates with a callable setup, whatever
\* the other candidates are.
C14_DiscoveryExactNeverRaises ==
    found.call = "discover" =>
        /\ found.out = "value"
        /\ found.names = Qualifying

\* The same statement for the module trees in which no candidate raises when
\* it is executed, which the code satisfies.
C14_ExactWhenImportable ==
    (found.call = "discover" /\ \A m \in Modules : kind[m] # "broken") =>
        /\ found.out = "value"
        /\ found.names = Qualifying

\* A text channel with the configured id.
IsText(ch, id) == ch # NoChannel /\ ch.kind = "text" /\ ch.id = id

\* A mapping with, for each configured feed type, the text channel of guild
\* gid that has the feed's id.
IsFullMapping(v, gid) ==
    /\ v.t = "map"
    /\ \A f \in FeedTypes : IsText(v.m[f], f) /\ v.m[f].guild = gid

\* The feeds whose channel the gateway does not hold in guild gid as a text
\* channel, by their place in the configuration.
Offending(gid) ==
    {i \in 1..Len(Feeds) :
        ~(IsText(channels[Feeds[i]], Feeds[i]) /\ channels[Feeds[i]].guild = gid)}

ReloadUnloaded(c) ==
    /\ reload'[c] # 0
    /\ call'[c] # call[c]
    /\ call'[c].st = "done" /\ call'[c].op = "unload" /\ call'[c].ret = "True"

\* The load of the reload c is running, made after its unload returned true,
\* returns false in this step.
ReloadLoadFailed(c) ==
    /\ reload[c] # 0 /\ reload'[c] = reload[c]
    /\ call'[c] # call[c]
    /\ call'[c].st = "done" /\ call'[c].op = "load" /\ call'[c].ret = "False"

\* C16 (amended): in a reload composed of try_unload_extension and
\* try_load_extension, the unload that returns true leaves the module out of
\* the active set, where the other tasks find it absent; the load that then
\* returns false changes nothing in the active set, so it does not put the
\* module back: the module is absent at its return unless another task has
\* loaded it since the unload (a load called after that fails with
\* ExtensionAlreadyLoaded).
C16_ReloadNotAtomic ==
    [][\A c \in Callers :
          /\ ReloadUnloaded(c) => reload'[c] \notin extensions'
          /\ ReloadLoadFailed(c) =>
                /\ extensions' = extensions
                /\ reload[c] \notin extensions => reload[c] \notin extensions'
                /\ (call[c].op = "unload" /\ call'[c].exc # "ExtensionAlreadyLoaded")
                      => reload[c] \notin extensions']_vars

\* C16 witness: the load of a reload has returned false after the activation
\* routine failed, the module is out of the active set, and a run of
\* on_message has found the filter absent and passed a message it rejects.
C16_Witness ==
    \E c \in Callers, h \in MessageHandlers :
        /\ reload[c] = FilterModule
        /\ call[c].st = "done" /\ call[c].op = "load"
        /\ call[c].ret = "False" /\ call[c].exc = "ExtensionFailed"
        /\ FilterModule \notin extensions
        /\ mh[h].st = "done" /\ mh[h].msg.filtered
        /\ mh[h].events = <<"message_filter_passed">>

\* C16 (as claimed): when the unload of a reload has returned true and its
\* load returns false, the module is out of the active set.
C16_AbsentAfterFailedLoad ==
    [][\A c \in Callers :
          ReloadLoadFailed(c) => reload[c] \notin extensions']_vars

\* The on_ready runs that have called load_emojis.
LoadCalls == {h \in Handlers : ready[h].st # "idle"}

\* C17 (as claimed): whatever ready events the gateway dispatches, load_emojis
\* is called at most once, and only after a ready event.
C17_LoadedOnce ==
    /\ Cardinality(LoadCalls) <= 1
    /\ LoadCalls # {} => readyFired

\* A load_emojis call of handler h raises in this step.
Raises(h) == ready[h].st # "raised" /\ ready'[h].st = "raised"

\* C18 (as claimed): a load_emojis call that raises, in resolving the log
\* channel or in the send, leaves the cache with guild emojis only and
\* without the labels it found missing; and while a call is suspended in the
\* send, the labels it found missing are absent from the cache.
C18_PlaceholdersOnlyAfterSend ==
    /\ [][\A h \in Handlers :
             Raises(h) =>
                 /\ \A n \in GuildEmojiNames : emojis'[n] \in {Emoji(n), NoEmoji}
                 /\ ready[h].st = "sending" =>
                        \A n \in ready[h].missing : emojis'[n] = NoEmoji]_vars
    /\ [](\A h \in Handlers :
             ready[h].st = "sending" =>
                 \A n \in ready[h].missing : emojis[n] = NoEmoji)

\* The same statement for a call that no other call overlaps, which the code
\* satisfies.
C18_SoleCallPlaceholdersAfterSend ==
    /\ [][\A h \in Handlers :
             (Raises(h) /\ \A o \in Handlers \ {h} : ready[o].st = "idle") =>
                 /\ \A n \in GuildEmojiNames : emojis'[n] \in {Emoji(n), NoEmoji}
                 /\ ready[h].st = "sending" =>
                        \A n \in ready[h].missing : emojis'[n] = NoEmoji]_vars
    /\ [](\A h \in Handlers :
             (ready[h].st = "sending" /\ \A o \in Handlers \ {h} : ready[o].st = "idle") =>
                 \A n \in ready[h].missing : emojis[n] = NoEmoji)

\* Some load_emojis call has completed.
OneCompleted == \E h \in Handlers : ready[h].st = "done"

\* A load_emojis call of handler h begins in this step.
LoadBegins(h) == ready[h].st = "idle" /\ ready'[h].st # "idle"

\* C19: once a load_emojis call has completed, every label is a key of the
\* emoji cache, and no key is ever removed; a load_emojis call that begins
\* after that sends no warning and is not suspended, and changes an entry
\* only to the guild's current emoji of that name: the entry of a label
\* whose emoji is gone keeps its value.
C19_CompleteAndMonotone ==
    /\ [](OneCompleted => \A n \in valid_emoji_names : emojis[n] # NoEmoji)
    /\ [][\A n \in GuildEmojiNames : emojis[n] # NoEmoji => emojis'[n] # NoEmoji]_vars
    /\ [][\A h \in Handlers :
             (OneCompleted /\ LoadBegins(h)) =>
                 /\ ready'[h].st = "done"
                 /\ ready'[h].sent = <<>>
                 /\ \A n \in GuildEmojiNames :
                        emojis'[n] = IF n \in valid_emoji_names /\ Emoji(n) \in guildEmojis
                                     THEN Emoji(n) ELSE emojis[n]]_vars

\* C19 witness: after a call that stored a placeholder for a label, a later
\* call has replaced it by the guild's emoji, and another label keeps the
\* emoji the guild no longer has.
C19_Witness ==
    \E h, o \in Handlers, n, k \in valid_emoji_names :
        /\ ready[h].st = "done" /\ ready[h].sent = <<{n}>>
        /\ ready[o].st = "done" /\ ready[o].sent = <<>>
        /\ emojis[n] = Emoji(n)
        /\ emojis[k] = Emoji(k) /\ Emoji(k) \notin guildEmojis

\* C20: a read of a memoized accessor that raises leaves nothing memoized
\* for it; a read that finds nothing memoized runs the function body, on what
\* the gateway holds at that moment, so that it returns and memoizes the
\* resource when the gateway then has it, whatever earlier reads raised; and
\* a value gets memoized only by a read that returns it.
C20_FailuresNotCached ==
    [][/\ \A k \in Keys :
             /\ (Accessed(k) /\ last'.res.out = "raise") =>
                   /\ cache[k] = NoValue
                   /\ cache'[k] = NoValue
             /\ (Accessed(k) /\ cache[k] = NoValue) =>
                   /\ last'.res.computed
                   /\ runs'[k] = OneMore(runs[k])
             /\ cache'[k] # cache[k] =>
                   /\ cache[k] = NoValue
                   /\ \/ Accessed(k) /\ last'.res.out = "value" /\ last'.res.val = cache'[k]
                      \/ k = "ghostty_guild" /\ Accessed("webhook_channels")
       /\ (Accessed("ghostty_guild") /\ cache["ghostty_guild"] = NoValue /\ Len(guilds) > 0) =>
             /\ last'.res.out = "value"
             /\ \E i \in 1..Len(guilds) : last'.res.val = Guild(guilds[i])
             /\ cache'["ghostty_guild"] = last'.res.val
       /\ (Accessed("log_channel") /\ cache["log_channel"] = NoValue
              /\ IsText(channels["log"], "log")) =>
             /\ last'.res.out = "value"
             /\ last'.res.val = channels["log"]
             /\ cache'["log_channel"] = channels["log"]
       /\ (Accessed("help_channel") /\ cache["help_channel"] = NoValue
              /\ channels["help"] # NoChannel /\ channels["help"].kind = "forum") =>
             /\ last'.res.out = "value"
             /\ last'.res.val = channels["help"]
             /\ cache'["help_channel"] = channels["help"]
       /\ (Accessed("webhook_channels") /\ cache["webhook_channels"] = NoValue
              /\ cache'["ghostty_guild"] # NoValue
              /\ Offending(cache'["ghostty_guild"].gid) = {}) =>
             /\ last'.res.out = "value"
             /\ \A f \in FeedTypes : last'.res.val.m[f] = channels[f]
             /\ cache'["webhook_channels"] = last'.res.val]_vars

\* C20 witness: a read of log_channel has run the function body for the
\* second time at least, after a read that raised, and memoized the channel
\* the gateway holds now.
C20_Witness ==
    /\ last.key = "log_channel"
    /\ last.res.computed
    /\ last.res.out = "value"
    /\ runs["log_channel"] = "again"
    /\ cache["log_channel"] = channels["log"]

====
